---- MODULE Spec2Model ----
(***************************************************************************)
(* LexiMindd (src/app.py): a Flask application that classifies a pasted or *)
(* uploaded judgment, retrieves the five most similar prior judgments and  *)
(* explains them through a hosted LLM.                                     *)
(*                                                                         *)
(* Python str values are sequences of one-character strings, so strip(),   *)
(* lower(), split(), find() and the `in` operator are computed character   *)
(* by character.  A fixed literal of the source that is only ever copied   *)
(* (a user-facing message) is a sequence holding the literal as a single   *)
(* element; the cross-mark emoji that opens the error messages is left    *)
(* out.  Corpus positions are 1..N here and 0..N-1 in Python.              *)
(***************************************************************************)
EXTENDS Integers, Sequences, FiniteSets, TLC

\* Python's None, and a key that a dict / form does not hold: one-element
\* sequences whose element is no character, so no str value equals them.
None == <<"None">>
Absent == <<"Absent">>

Min(S) == CHOOSE x \in S : \A y \in S : x <= y
Max(S) == CHOOSE x \in S : \A y \in S : x >= y

--------------------------------------------------------------------------
(* Python str primitives *)

Whitespace == {" ", "\n", "\t"}
UpperCase == <<"A", "B", "C", "D", "E", "F", "G", "H", "I", "J", "K", "L", "M", "N", "O", "P", "Q", "R", "S", "T", "U", "V", "W", "X", "Y", "Z">>
LowerCase == <<"a", "b", "c", "d", "e", "f", "g", "h", "i", "j", "k", "l", "m", "n", "o", "p", "q", "r", "s", "t", "u", "v", "w", "x", "y", "z">>
Digits == <<"0", "1", "2", "3", "4", "5", "6", "7", "8", "9">>

LowerChar(c) ==
    IF \E i \in 1..Len(UpperCase) : UpperCase[i] = c
    THEN LowerCase[CHOOSE i \in 1..Len(UpperCase) : UpperCase[i] = c]
    ELSE c

\* s.lower()
lower(s) == [i \in 1..Len(s) |-> LowerChar(s[i])]

\* s.strip()
strip(s) ==
    LET keep == {i \in 1..Len(s) : s[i] \notin Whitespace}
    IN IF keep = {} THEN <<>> ELSE SubSeq(s, Min(keep), Max(keep))

\* s.split() from position i on: the maximal runs of non-whitespace
RECURSIVE SplitFrom(_, _)
SplitFrom(s, i) ==
    IF i > Len(s) THEN <<>>
    ELSE IF s[i] \in Whitespace THEN SplitFrom(s, i + 1)
    ELSE LET j == Min({k \in i..Len(s) : k = Len(s) \/ s[k + 1] \in Whitespace})
         IN <<SubSeq(s, i, j)>> \o SplitFrom(s, j + 1)

split(s) == SplitFrom(s, 1)

\* s.find(p): the 0-based position of the first occurrence of p, or -1
find(s, p) ==
    LET hits == {i \in 1..(Len(s) - Len(p) + 1) : SubSeq(s, i, i + Len(p) - 1) = p}
    IN IF hits = {} THEN -1 ELSE Min(hits) - 1

\* p in s
Contains(s, p) == find(s, p) # -1

startswith(s, p) == Len(p) <= Len(s) /\ SubSeq(s, 1, Len(p)) = p
endswith(s, p) == Len(p) <= Len(s) /\ SubSeq(s, Len(s) - Len(p) + 1, Len(s)) = p

\* s[k:] and s[:n]
SliceFrom(s, k) == SubSeq(s, k + 1, Len(s))
SliceTo(s, n) == SubSeq(s, 1, IF n < Len(s) THEN n ELSE Len(s))

\* sep.join(parts)
RECURSIVE join(_, _)
join(sep, parts) ==
    IF parts = <<>> THEN <<>>
    ELSE IF Len(parts) = 1 THEN parts[1]
    ELSE parts[1] \o sep \o join(sep, Tail(parts))

\* str(n) of a one-digit number
IntStr(n) == <<Digits[n + 1]>>

\* Python truthiness of an optional str
Truthy(s) == s # None /\ s # <<>>

--------------------------------------------------------------------------
(* Program constants *)

TopK == 5
MinWords == 5
PreviewLen == 500
ChunkLimit == 1000
DefaultMaxRetries == 3

(* Bounds of the model *)

MaxCorpus == 6
MaxScore == 1
MaxWords == 6
MaxPages == 2
MaxChunks == 2

Workers == {1, 2}

--------------------------------------------------------------------------
VARIABLES
    \* process-wide state, set at import time (lines 60-91)
    judgment_texts, case_names, embeddings, model, modellog,
    GEMINI_API_KEY, gemini_model,
    \* per request being handled by a worker
    pc,                 \* position of the handler
    request,            \* the request as received
    response,           \* the reply sent, once the handler is done
    calls,              \* calls made to the collaborators during this request
    \* locals of index()
    input_text, text, predicted_category, cos_scores, top_results,
    \* locals of chat() and get_legal_explanation()
    question, context_chunks, max_retries, prompt, attempt, errs, gle, result

globals == <<judgment_texts, case_names, embeddings, model, modellog,
             GEMINI_API_KEY, gemini_model>>
indexLocals == <<input_text, text, predicted_category, cos_scores, top_results>>
chatLocals == <<question, context_chunks, max_retries, prompt, attempt, errs, gle, result>>
vars == <<globals, pc, request, response, calls, indexLocals, chatLocals>>

--------------------------------------------------------------------------
(* Startup: lines 60-91 *)

\* The corpus artifacts as loaded from the pickles; the three parallel
\* structures are index-aligned (the code relies on it and never checks).
CaseName(i) == <<"c", "a", "s", "e">> \o IntStr(i)
JudgmentText(i) == <<"J", "U", "D", "G", "M", "E", "N", "T", " ", "o", "f", " ", "c", "a", "s", "e", " ">> \o IntStr(i)

\* gemini_model after lines 68-91: a client only when the key is set and
\* neither genai.configure nor genai.GenerativeModel raised.
InitGemini(key, configure_ok, create_ok) ==
    IF Truthy(key)
    THEN IF configure_ok
         THEN IF create_ok THEN <<"g", "e", "m", "i", "n", "i", "-", "1", ".", "5", "-", "f", "l", "a", "s", "h">> ELSE None
         ELSE None
    ELSE None

ApiKeys == {None, <<>>, <<"A", "I", "z", "a">>}

NoRequest == [route |-> "none"]
NoResponse == [status |-> 0]
NoCalls == [predict |-> 0, encode |-> 0, generate_content |-> 0,
            get_legal_explanation |-> 0]
NoResult == [answer |-> None, error |-> None, sources |-> <<>>]
NoPrompt == [template |-> "none", context |-> <<>>, question |-> <<>>]

Startup(Sizes, Keys) ==
    /\ \E n \in Sizes :
         /\ judgment_texts = [i \in 1..n |-> JudgmentText(i)]
         /\ case_names = [i \in 1..n |-> CaseName(i)]
         /\ embeddings = [i \in 1..n |-> i]
    /\ model = "encoder"
    /\ modellog = "classifier"
    /\ GEMINI_API_KEY \in Keys
    /\ \E configure_ok \in BOOLEAN, create_ok \in BOOLEAN :
         gemini_model = InitGemini(GEMINI_API_KEY, configure_ok, create_ok)
    /\ pc = [w \in Workers |-> "idle"]
    /\ request = [w \in Workers |-> NoRequest]
    /\ response = [w \in Workers |-> NoResponse]
    /\ calls = [w \in Workers |-> NoCalls]
    /\ input_text = [w \in Workers |-> Absent]
    /\ text = [w \in Workers |-> Absent]
    /\ predicted_category = [w \in Workers |-> None]
    /\ cos_scores = [w \in Workers |-> <<>>]
    /\ top_results = [w \in Workers |-> <<>>]
    /\ question = [w \in Workers |-> Absent]
    /\ context_chunks = [w \in Workers |-> [is_none |-> TRUE, chunks |-> <<>>]]
    /\ max_retries = [w \in Workers |-> DefaultMaxRetries]
    /\ prompt = [w \in Workers |-> NoPrompt]
    /\ attempt = [w \in Workers |-> 0]
    /\ errs = [w \in Workers |-> <<>>]
    /\ gle = [w \in Workers |-> "none"]
    /\ result = [w \in Workers |-> NoResult]

\* A worker takes a new request: every local of the previous one is gone.
FreshIndexLocals(w) ==
    /\ input_text' = [input_text EXCEPT ![w] = Absent]
    /\ text' = [text EXCEPT ![w] = Absent]
    /\ predicted_category' = [predicted_category EXCEPT ![w] = None]
    /\ cos_scores' = [cos_scores EXCEPT ![w] = <<>>]
    /\ top_results' = [top_results EXCEPT ![w] = <<>>]

FreshChatLocals(w) ==
    /\ question' = [question EXCEPT ![w] = Absent]
    /\ context_chunks' = [context_chunks EXCEPT ![w] = [is_none |-> TRUE, chunks |-> <<>>]]
    /\ max_retries' = [max_retries EXCEPT ![w] = DefaultMaxRetries]
    /\ prompt' = [prompt EXCEPT ![w] = NoPrompt]
    /\ attempt' = [attempt EXCEPT ![w] = 0]
    /\ errs' = [errs EXCEPT ![w] = <<>>]
    /\ gle' = [gle EXCEPT ![w] = "none"]
    /\ result' = [result EXCEPT ![w] = NoResult]

CanAccept(w) == pc[w] = "idle"

\* The reply has been sent: the handler's frame is gone and the worker is
\* free for the next request.
Finish(w) ==
    /\ pc[w] = "done"
    /\ pc' = [pc EXCEPT ![w] = "idle"]
    /\ request' = [request EXCEPT ![w] = NoRequest]
    /\ response' = [response EXCEPT ![w] = NoResponse]
    /\ calls' = [calls EXCEPT ![w] = NoCalls]
    /\ FreshIndexLocals(w)
    /\ FreshChatLocals(w)
    /\ UNCHANGED globals

--------------------------------------------------------------------------
(* read_pdf_from_bytes: lines 32-58 *)

\* What a parser does on given bytes: open may raise; each page's
\* extract_text() gives a text, None, or raises.
Raise == <<"Raise">>

\* The non-empty page texts collected up to the first page that raises.
RECURSIVE CollectPages(_)
CollectPages(pages) ==
    IF pages = <<>> THEN [texts |-> <<>>, raised |-> FALSE]
    ELSE IF Head(pages) = Raise THEN [texts |-> <<>>, raised |-> TRUE]
    ELSE LET rest == CollectPages(Tail(pages))
         IN [texts |-> (IF Truthy(Head(pages)) THEN <<Head(pages)>> ELSE <<>>)
                         \o rest.texts,
             raised |-> rest.raised]

\* One parser run: the pages appended to text_pages and whether it raised.
RunParser(parser) ==
    IF parser.open_ok THEN CollectPages(parser.pages)
    ELSE [texts |-> <<>>, raised |-> TRUE]

ExtractError == <<"[", "E", "R", "R", "O", "R", "]", " ", "C", "o", "u", "l", "d", " ", "n", "o", "t", " ", "e", "x", "t", "r", "a", "c", "t", " ", "P", "D", "F", " ", "t", "e", "x", "t", ":", " ">> \o <<"e">>

read_pdf_from_bytes(file_bytes) ==
    LET primary == RunParser(file_bytes.pdfplumber)
        secondary == RunParser(file_bytes.PyPDF2)
        \* text_pages is one list: the fallback appends to what the
        \* first parser left in it
        text_pages == primary.texts \o secondary.texts
    IN IF ~primary.raised /\ primary.texts # <<>>
       THEN join(<<"\n">>, primary.texts)
       ELSE IF secondary.raised THEN ExtractError
       ELSE join(<<"\n">>, text_pages)

--------------------------------------------------------------------------
(* index(), POST /: lines 311-404 *)

NoFile == [present |-> FALSE, filename |-> <<>>, empty |-> TRUE,
           pdfplumber |-> [open_ok |-> FALSE, pages |-> <<>>],
           PyPDF2 |-> [open_ok |-> FALSE, pages |-> <<>>]]

MsgNoInput == <<"No input provided (paste text or upload a PDF).">>
MsgOnlyPdf == <<"Only PDF files are allowed.">>
MsgEmptyFile == <<"Uploaded file is empty.">>
MsgPdfFailed(t) == <<"PDF processing failed: ">> \o t
MsgNoText == <<"No text could be extracted from the input.">>
MsgTooShort(n) ==
    <<"Input text is too short. Please provide at least 5 words for meaningful analysis. Current: ">>
        \o IntStr(n) \o <<" words.">>
MsgPredictError == <<"Error in category prediction: ">> \o <<"e">>
MsgSearchError == <<"Error in semantic search: ">> \o <<"e">>

Reject(msg) == [ok |-> FALSE, status |-> 400, body |-> msg, input_text |-> Absent]
Accept(t) == [ok |-> TRUE, status |-> 0, body |-> <<>>, input_text |-> t]

\* A word-count check that lets four words through.
CheckTextOffByOne(t) ==
    IF ~Truthy(t) THEN Reject(MsgNoText)
    ELSE IF Len(split(strip(t))) < MinWords - 1
         THEN Reject(MsgTooShort(Len(split(strip(t)))))
         ELSE Accept(t)

\* Lines 337-344: non-empty and at least five whitespace-separated words.
CheckText(t) ==
    IF ~Truthy(t) THEN Reject(MsgNoText)
    ELSE IF Len(split(strip(t))) < MinWords
         THEN Reject(MsgTooShort(Len(split(strip(t)))))
         ELSE Accept(t)

\* An upload check that does not look at the file's name.
CheckUploadAnyName(uploaded) ==
    IF ~uploaded.present \/ uploaded.filename = <<>> THEN Reject(MsgNoInput)
    ELSE IF uploaded.empty THEN Reject(MsgEmptyFile)
    ELSE LET extracted == read_pdf_from_bytes(uploaded)
         IN IF startswith(extracted, <<"[", "E", "R", "R", "O", "R", "]">>)
            THEN Reject(MsgPdfFailed(extracted))
            ELSE CheckText(extracted)

\* Lines 315-335: the uploaded file is looked at only when no text was pasted.
CheckUpload(uploaded) ==
    IF ~uploaded.present \/ uploaded.filename = <<>> THEN Reject(MsgNoInput)
    ELSE IF ~endswith(lower(uploaded.filename), <<".", "p", "d", "f">>) THEN Reject(MsgOnlyPdf)
    ELSE IF uploaded.empty THEN Reject(MsgEmptyFile)
    ELSE LET extracted == read_pdf_from_bytes(uploaded)
         IN IF startswith(extracted, <<"[", "E", "R", "R", "O", "R", "]">>)
            THEN Reject(MsgPdfFailed(extracted))
            ELSE CheckText(extracted)

\* Lines 312-344
ValidateForm(form) ==
    LET pasted == strip(IF form.text_input = Absent THEN <<>> ELSE form.text_input)
    IN IF pasted # <<>> THEN CheckText(pasted) ELSE CheckUpload(form.file)

\* Lines 347-348
AfterMarker(t) ==
    LET start_index == find(t, <<"J", "U", "D", "G", "M", "E", "N", "T">>)
    IN IF start_index # -1 THEN SliceFrom(t, start_index) ELSE t

IndexResponse(status, body) ==
    [status |-> status, body |-> body, results |-> <<>>, category |-> None,
     original_document |-> None]

IndexStart(w, Forms) ==
    /\ CanAccept(w)
    /\ \E form \in Forms :
         LET v == ValidateForm(form)
         IN /\ request' = [request EXCEPT ![w] = [route |-> "POST /", form |-> form]]
            /\ calls' = [calls EXCEPT ![w] = NoCalls]
            /\ FreshChatLocals(w)
            /\ predicted_category' = [predicted_category EXCEPT ![w] = None]
            /\ cos_scores' = [cos_scores EXCEPT ![w] = <<>>]
            /\ top_results' = [top_results EXCEPT ![w] = <<>>]
            /\ IF v.ok
               THEN /\ input_text' = [input_text EXCEPT ![w] = v.input_text]
                    /\ text' = [text EXCEPT ![w] = AfterMarker(v.input_text)]
                    /\ response' = [response EXCEPT ![w] = NoResponse]
                    /\ pc' = [pc EXCEPT ![w] = "predict"]
               ELSE /\ input_text' = [input_text EXCEPT ![w] = Absent]
                    /\ text' = [text EXCEPT ![w] = Absent]
                    /\ response' = [response EXCEPT ![w] = IndexResponse(v.status, v.body)]
                    /\ pc' = [pc EXCEPT ![w] = "done"]
    /\ UNCHANGED globals

Categories == {<<"C", "i", "v", "i", "l">>, <<"C", "r", "i", "m", "i", "n", "a", "l">>}

\* What modellog.predict gives: a category, or an exception.
PredictOutcomes == Categories \cup {Raise}
SomePredictOutcomes == {<<"C", "i", "v", "i", "l">>, Raise}

\* Lines 351-354: modellog.predict([text])[0], or the 500 reply when it raises.
Predict(w, Outcomes) ==
    /\ pc[w] = "predict"
    /\ calls' = [calls EXCEPT ![w].predict = @ + 1]
    /\ \E outcome \in Outcomes :
         IF outcome = Raise
         THEN /\ response' = [response EXCEPT ![w] = IndexResponse(500, MsgPredictError)]
              /\ pc' = [pc EXCEPT ![w] = "done"]
              /\ UNCHANGED predicted_category
         ELSE /\ predicted_category' = [predicted_category EXCEPT ![w] = outcome]
              /\ pc' = [pc EXCEPT ![w] = "search"]
              /\ UNCHANGED response
    /\ UNCHANGED <<globals, request, input_text, text, cos_scores, top_results, chatLocals>>

\* The orders of the positions S along which a is non-decreasing: what a sort
\* that is not stable (numpy's default kind) may return.
RECURSIVE SortedOrders(_, _)
SortedOrders(a, S) ==
    IF S = {} THEN {<<>>}
    ELSE LET least == {i \in S : \A j \in S : a[i] <= a[j]}
         IN UNION {{<<i>> \o rest : rest \in SortedOrders(a, S \ {i})} : i \in least}

argsort(a) == SortedOrders(a, DOMAIN a)

\* A ranking that sorts the scores themselves, lowest first.
TopResultsAscending(scores) ==
    {SliceTo(order, TopK) : order \in argsort(scores)}

\* Line 360: np.argsort(-cos_scores)[:5]
TopResults(scores) ==
    {SliceTo(order, TopK) : order \in argsort([i \in DOMAIN scores |-> 0 - scores[i]])}

\* Lines 364-372
BuildResults(top, scores) ==
    [r \in 1..Len(top) |->
        [case |-> case_names[top[r]],
         score |-> scores[top[r]],
         rank |-> r,
         preview |-> SliceTo(judgment_texts[top[r]], PreviewLen),
         full_text |-> judgment_texts[top[r]]]]

\* A cleanup that takes the branch deleting from the module's namespace.
CleanupDeletesGlobal(w) ==
    /\ input_text' = [input_text EXCEPT ![w] = Absent]
    /\ text' = [text EXCEPT ![w] = Absent]
    /\ judgment_texts' = <<>>
    /\ UNCHANGED <<case_names, embeddings, model, modellog, GEMINI_API_KEY, gemini_model>>

\* Lines 377-390: input_text and text are deleted; pdf_bytes is a local of
\* index() (line 314), so the branch that deletes a module global is never
\* taken and the module's namespace is left as it is.
Cleanup(w) ==
    /\ input_text' = [input_text EXCEPT ![w] = Absent]
    /\ text' = [text EXCEPT ![w] = Absent]
    /\ UNCHANGED globals

\* Lines 356-404: encode, score, rank, build the results, drop the request's
\* text and render.
Search(w, Scores) ==
    /\ pc[w] = "search"
    /\ calls' = [calls EXCEPT ![w].encode = @ + 1]
    /\ \E raised \in BOOLEAN :
         IF raised
         THEN /\ response' = [response EXCEPT ![w] = IndexResponse(500, MsgSearchError)]
              /\ UNCHANGED <<globals, cos_scores, top_results, input_text, text>>
         ELSE \E scores \in [DOMAIN embeddings -> Scores] :
              \E top \in TopResults(scores) :
                /\ cos_scores' = [cos_scores EXCEPT ![w] = scores]
                /\ top_results' = [top_results EXCEPT ![w] = top]
                /\ response' = [response EXCEPT ![w] =
                        [status |-> 200, body |-> <<>>,
                         results |-> BuildResults(top, scores),
                         category |-> predicted_category[w],
                         original_document |-> text[w]]]
                /\ Cleanup(w)
    /\ pc' = [pc EXCEPT ![w] = "done"]
    /\ UNCHANGED <<request, predicted_category, chatLocals>>

--------------------------------------------------------------------------
(* get_legal_explanation: lines 93-293 *)

MsgUnavailable ==
    <<"AI service temporarily unavailable due to quota limits. Please try again later or use the search functionality to find relevant legal cases.">>
MsgGuidance ==
    <<"I can help explain legal concepts in simple terms, but I need some context from legal cases to provide accurate information. Please use the main search form first to find relevant cases, then ask me specific questions about them.">>
MsgNoResponse == <<"No response generated from AI model">>
MsgQuota ==
    <<"QUOTA EXCEEDED: Your Gemini API free tier limit has been reached. Please upgrade to a paid plan or wait for the quota to reset. See: https://ai.google.dev/pricing">>
MsgApiKey ==
    <<"API KEY ISSUE: Please check your Gemini API key in the .env file. Make sure it's valid and has the required permissions.">>
MsgServiceError(n, error_str) ==
    <<"AI service error after ">> \o IntStr(n) \o <<" attempts: ">> \o error_str
MsgFailed == <<"Failed to get response from AI service">>

ErrorResult(msg) == [answer |-> None, error |-> msg, sources |-> <<>>]

\* Lines 122-131: the keyword lists, matched against the lower-cased question.
StructuredKeywords ==
    {<<"s", "t", "r", "u", "c", "t", "u", "r", "e", "d", " ", "s", "u", "m", "m", "a", "r", "y">>, <<"s", "u", "m", "m", "a", "r", "y", " ", "w", "i", "t", "h", " ", "s", "e", "c", "t", "i", "o", "n", "s">>, <<"g", "i", "v", "e", " ", "a", " ", "s", "t", "r", "u", "c", "t", "u", "r", "e", "d", " ", "s", "u", "m", "m", "a", "r", "y">>,
     <<"c", "a", "s", "e", " ", "b", "a", "c", "k", "g", "r", "o", "u", "n", "d">>, <<"h", "i", "g", "h", " ", "c", "o", "u", "r", "t">>, <<"s", "u", "p", "r", "e", "m", "e", " ", "c", "o", "u", "r", "t">>, <<"w", "h", "y", " ", "i", "t", " ", "m", "a", "t", "t", "e", "r", "s">>}
LaymanKeywords ==
    {<<"e", "x", "p", "l", "a", "i", "n", " ", "i", "n", " ", "s", "i", "m", "p", "l", "e", " ", "t", "e", "r", "m", "s">>, <<"l", "a", "y", "m", "a", "n">>, <<"n", "o", "n", "-", "l", "a", "w", " ", "s", "t", "u", "d", "e", "n", "t">>, <<"s", "i", "m", "p", "l", "e", " ", "w", "o", "r", "d", "s">>,
     <<"e", "a", "s", "y", " ", "e", "x", "p", "l", "a", "n", "a", "t", "i", "o", "n">>, <<"p", "l", "a", "i", "n", " ", "e", "n", "g", "l", "i", "s", "h">>, <<"e", "v", "e", "r", "y", "d", "a", "y", " ", "l", "a", "n", "g", "u", "a", "g", "e">>}

\* Lines 119-241
SelectTemplate(q) ==
    LET question_lower == lower(q)
    IN IF \E k \in StructuredKeywords : Contains(question_lower, k) THEN "structured"
       ELSE IF \E k \in LaymanKeywords : Contains(question_lower, k) THEN "layman"
       ELSE "default"

\* chunk.get(key, default) on a chunk of the request's context
ChunkGet(value, default) == IF value = Absent THEN default ELSE value

\* Lines 113-116
BuildContext(chunks) ==
    join(<<"\n", "\n">>,
         [i \in 1..Len(chunks) |->
            <<"[", "S", "o", "u", "r", "c", "e", ":", " ">> \o ChunkGet(chunks[i].case, <<"Unknown Case">>) \o <<"]", " ">>
              \o SliceTo(ChunkGet(chunks[i].full_text, ChunkGet(chunks[i].preview, <<>>)),
                         ChunkLimit)])

\* Line 243
BuildPrompt(q, chunks) ==
    [template |-> SelectTemplate(q), context |-> BuildContext(chunks), question |-> q]

\* Line 251: the case names of the chunks that carry one
RECURSIVE Sources(_)
Sources(chunks) ==
    IF chunks = <<>> THEN <<>>
    ELSE (IF Truthy(ChunkGet(chunks[1].case, None))
          THEN <<ChunkGet(chunks[1].case, <<"Unknown Case">>)>> ELSE <<>>)
         \o Sources(Tail(chunks))

\* Lines 249-263: what the call returns once generate_content has returned.
\* response_text is None when the response object or its text is missing.
OnResponse(response_text, chunks) ==
    IF Truthy(response_text)
    THEN [answer |-> strip(response_text), sources |-> Sources(chunks), error |-> None]
    ELSE ErrorResult(MsgNoResponse)

\* A classification that tests for the credential words first.
ClassifyErrorCredentialFirst(error_str, n) ==
    IF Contains(lower(error_str), <<"a", "p", "i", "_", "k", "e", "y">>) \/ Contains(lower(error_str), <<"p", "e", "r", "m", "i", "s", "s", "i", "o", "n">>)
    THEN ErrorResult(MsgApiKey)
    ELSE IF Contains(lower(error_str), <<"q", "u", "o", "t", "a">>) \/ Contains(error_str, <<"4", "2", "9">>)
         THEN ErrorResult(MsgQuota)
         ELSE ErrorResult(MsgServiceError(n, error_str))

\* Lines 268-286: the message for the error of the last attempt.
ClassifyError(error_str, n) ==
    IF Contains(lower(error_str), <<"q", "u", "o", "t", "a">>) \/ Contains(error_str, <<"4", "2", "9">>)
    THEN ErrorResult(MsgQuota)
    ELSE IF Contains(lower(error_str), <<"a", "p", "i", "_", "k", "e", "y">>) \/ Contains(lower(error_str), <<"p", "e", "r", "m", "i", "s", "s", "i", "o", "n">>)
         THEN ErrorResult(MsgApiKey)
         ELSE ErrorResult(MsgServiceError(n, error_str))

\* A loop that gives up one failure too late.
IsLastAttemptLate(att, n) == att = n

\* Line 267
IsLastAttempt(att, n) == att = n - 1

Returned(r) == [gle |-> "returned", result |-> r]
Raised == [gle |-> "raised", result |-> [answer |-> None, error |-> None, sources |-> <<>>]]
Running == [gle |-> "running", result |-> [answer |-> None, error |-> None, sources |-> <<>>]]

\* The function without its guard on gemini_model.
EnterExplainWithoutModelCheck(ctx, n) ==
    IF ctx.is_none \/ Len(ctx.chunks) = 0
    THEN Returned([error |-> None, answer |-> MsgGuidance, sources |-> <<>>])
    ELSE IF \E i \in 1..Len(ctx.chunks) : ~ctx.chunks[i].is_dict THEN Raised
    ELSE IF n = 0 THEN Returned(ErrorResult(MsgFailed))
    ELSE Running

\* The function without its guard on an empty context.
EnterExplainWithoutContextCheck(ctx, n) ==
    IF ~Truthy(gemini_model) THEN Returned(ErrorResult(MsgUnavailable))
    ELSE IF \E i \in 1..Len(ctx.chunks) : ~ctx.chunks[i].is_dict THEN Raised
    ELSE IF n = 0 THEN Returned(ErrorResult(MsgFailed))
    ELSE Running

\* Lines 97-245: everything before the first provider call.  Building the
\* context raises when a chunk is not a dict.
EnterExplain(ctx, n) ==
    IF ~Truthy(gemini_model) THEN Returned(ErrorResult(MsgUnavailable))
    ELSE IF ctx.is_none \/ Len(ctx.chunks) = 0
         THEN Returned([error |-> None, answer |-> MsgGuidance, sources |-> <<>>])
    ELSE IF \E i \in 1..Len(ctx.chunks) : ~ctx.chunks[i].is_dict THEN Raised
    ELSE IF n = 0 THEN Returned(ErrorResult(MsgFailed))
    ELSE Running

\* Lines 245-287: one pass of the retry loop, given what generate_content did.
AfterAttempt(outcome, att, n, chunks) ==
    IF outcome.kind = "response" THEN Returned(OnResponse(outcome.text, chunks))
    ELSE IF IsLastAttempt(att, n) THEN Returned(ClassifyError(outcome.error_str, n))
    ELSE Running

--------------------------------------------------------------------------
(* chat(), POST /chat: lines 439-492 *)

MsgMissingQuestion == <<"Missing 'question' in request data">>
MsgEmptyQuestion == <<"Question cannot be empty">>
MsgGreeting ==
    <<"Hello! I'm your legal assistant. I can help explain your uploaded legal documents in simple, everyday language with clear, structured responses using emojis and sections. Please upload a document first using the main form, then ask me specific questions about it.">>
MsgChatGuidance ==
    <<"I can help explain legal concepts in simple terms with clear, structured responses using emojis and sections, but I need some context from your uploaded document to provide accurate information. Please upload a document first using the main form, then ask me specific questions about it.">>
MsgChatbotError == <<"Chatbot error: ">> \o <<"e">>

Greetings == {<<"h", "i">>, <<"h", "e", "l", "l", "o">>, <<"h", "e", "y">>, <<"h", "e", "l", "p">>, <<"w", "h", "a", "t", " ", "c", "a", "n", " ", "y", "o", "u", " ", "d", "o">>}

ChatResponse(status, success, reply, error, sources) ==
    [status |-> status, success |-> success, response |-> reply, error |-> error,
     sources |-> sources]

ChatError(status, msg) == ChatResponse(status, FALSE, Absent, msg, <<>>)
ChatCanned(msg) == ChatResponse(200, TRUE, msg, Absent, <<>>)

\* Lines 482-489 and 491-492: the reply built from get_legal_explanation's outcome
ChatReply(o) ==
    IF o.gle = "raised" THEN ChatError(500, MsgChatbotError)
    ELSE IF Truthy(o.result.error) THEN ChatError(500, o.result.error)
    ELSE ChatResponse(200, TRUE, o.result.answer, Absent, o.result.sources)

\* A greeting test that forgets to lower-case the question.
CannedReplyCaseSensitive(q) ==
    IF strip(q) \in Greetings THEN ChatCanned(MsgGreeting)
    ELSE ChatCanned(MsgChatGuidance)

\* Lines 461-477
CannedReply(q) ==
    IF strip(lower(q)) \in Greetings THEN ChatCanned(MsgGreeting)
    ELSE ChatCanned(MsgChatGuidance)

EmptyList == [is_none |-> FALSE, chunks |-> <<>>]
NullContext == [is_none |-> TRUE, chunks |-> <<>>]

\* Lines 446-477: the reply chat() gives without calling get_legal_explanation,
\* or the call it makes.  len(None) raises and the handler's except replies.
ChatDecide(data) ==
    IF ~data.has_json \/ ~data.has_question
    THEN [call |-> FALSE, reply |-> ChatError(400, MsgMissingQuestion)]
    ELSE IF strip(data.question) = <<>>
    THEN [call |-> FALSE, reply |-> ChatError(400, MsgEmptyQuestion)]
    ELSE LET chunks == IF data.has_context THEN data.context ELSE EmptyList
         IN IF chunks.is_none THEN [call |-> FALSE, reply |-> ChatError(500, MsgChatbotError)]
            ELSE IF Len(chunks.chunks) = 0
                 THEN [call |-> FALSE, reply |-> CannedReply(strip(data.question))]
                 ELSE [call |-> TRUE, reply |-> ChatError(0, <<>>)]

\* The handler's state once get_legal_explanation has returned or raised, or
\* while it is between two provider calls.
Proceed(w, o, reply) ==
    /\ gle' = [gle EXCEPT ![w] = o.gle]
    /\ result' = [result EXCEPT ![w] = o.result]
    /\ IF o.gle = "running"
       THEN /\ pc' = [pc EXCEPT ![w] = "attempt"]
            /\ response' = [response EXCEPT ![w] = NoResponse]
       ELSE /\ pc' = [pc EXCEPT ![w] = "done"]
            /\ response' = [response EXCEPT ![w] = reply]

Chat(w, Datas) ==
    /\ CanAccept(w)
    /\ \E data \in Datas :
         LET d == ChatDecide(data)
             q == strip(data.question)
             o == EnterExplain(data.context, DefaultMaxRetries)
         IN /\ request' = [request EXCEPT ![w] = [route |-> "POST /chat", data |-> data]]
            /\ FreshIndexLocals(w)
            /\ max_retries' = [max_retries EXCEPT ![w] = DefaultMaxRetries]
            /\ attempt' = [attempt EXCEPT ![w] = 0]
            /\ errs' = [errs EXCEPT ![w] = <<>>]
            /\ IF d.call
               THEN /\ calls' = [calls EXCEPT ![w] =
                            [NoCalls EXCEPT !.get_legal_explanation = 1]]
                    /\ question' = [question EXCEPT ![w] = q]
                    /\ context_chunks' = [context_chunks EXCEPT ![w] = data.context]
                    /\ prompt' = [prompt EXCEPT ![w] =
                            IF o.gle = "running" THEN BuildPrompt(q, data.context.chunks)
                            ELSE NoPrompt]
                    /\ Proceed(w, o, ChatReply(o))
               ELSE /\ calls' = [calls EXCEPT ![w] = NoCalls]
                    /\ question' = [question EXCEPT ![w] = Absent]
                    /\ context_chunks' = [context_chunks EXCEPT ![w] = NullContext]
                    /\ prompt' = [prompt EXCEPT ![w] = NoPrompt]
                    /\ gle' = [gle EXCEPT ![w] = "none"]
                    /\ result' = [result EXCEPT ![w] = NoResult]
                    /\ pc' = [pc EXCEPT ![w] = "done"]
                    /\ response' = [response EXCEPT ![w] = d.reply]
    /\ UNCHANGED globals

\* get_legal_explanation called as a function, with any arguments.
Explain(w, Qs, Ctxs, Ns) ==
    /\ CanAccept(w)
    /\ \E q \in Qs, ctx \in Ctxs, n \in Ns :
         LET o == EnterExplain(ctx, n)
         IN /\ request' = [request EXCEPT ![w] =
                    [route |-> "get_legal_explanation", question |-> q,
                     context_chunks |-> ctx, max_retries |-> n]]
            /\ FreshIndexLocals(w)
            /\ calls' = [calls EXCEPT ![w] = [NoCalls EXCEPT !.get_legal_explanation = 1]]
            /\ question' = [question EXCEPT ![w] = q]
            /\ context_chunks' = [context_chunks EXCEPT ![w] = ctx]
            /\ max_retries' = [max_retries EXCEPT ![w] = n]
            /\ attempt' = [attempt EXCEPT ![w] = 0]
            /\ errs' = [errs EXCEPT ![w] = <<>>]
            /\ prompt' = [prompt EXCEPT ![w] =
                    IF o.gle = "running" THEN BuildPrompt(q, ctx.chunks) ELSE NoPrompt]
            /\ Proceed(w, o, NoResponse)
    /\ UNCHANGED globals

\* Lines 245-287: gemini_model.generate_content(prompt) returns or raises.
Attempt(w, Outcomes) ==
    /\ pc[w] = "attempt"
    /\ \E outcome \in Outcomes :
         LET o == AfterAttempt(outcome, attempt[w], max_retries[w], context_chunks[w].chunks)
         IN /\ calls' = [calls EXCEPT ![w].generate_content = @ + 1]
            /\ errs' = [errs EXCEPT ![w] =
                    IF outcome.kind = "raise" THEN Append(@, outcome.error_str) ELSE @]
            /\ attempt' = [attempt EXCEPT ![w] = IF o.gle = "running" THEN @ + 1 ELSE @]
            /\ Proceed(w, o, IF request[w].route = "POST /chat" THEN ChatReply(o)
                             ELSE NoResponse)
    /\ UNCHANGED <<globals, request, indexLocals, question, context_chunks,
                   max_retries, prompt>>

--------------------------------------------------------------------------
(* Inputs of POST / *)

RECURSIVE Repeat(_, _, _)
Repeat(word, sep, k) ==
    IF k = 0 THEN <<>>
    ELSE IF k = 1 THEN word
    ELSE word \o sep \o Repeat(word, sep, k - 1)

Pads == {<<>>, <<" ">>}
Separators == {<<" ">>, <<"\n">>, <<"\t", " ">>}

\* Pasted texts of 0..MaxWords words, with and without surrounding blanks,
\* and texts holding the marker and the extractor's error prefix.
TextInputs ==
    {Absent}
    \cup {lead \o Repeat(<<"a", "b">>, sep, k) \o trail :
            lead \in Pads, trail \in Pads, sep \in Separators, k \in 0..MaxWords}
    \cup {<<"a", " ", "b", " ", "J", "U", "D", "G", "M", "E", "N", "T", " ", "c", " ", "d", " ", "e">>, <<"J", "U", "D", "G", "M", "E", "N", "T", " ", "a", " ", "b", " ", "c", " ", "d">>, <<"[", "E", "R", "R", "O", "R", "]", " ", "a", " ", "b", " ", "c", " ", "d", " ", "e">>}

BlankTexts == {Absent, <<>>, <<" ", "\n">>}
ValidTexts == {<<"a", " ", "b", " ", "J", "U", "D", "G", "M", "E", "N", "T", " ", "c", " ", "d", " ", "e">>, <<"a", "b", " ", "a", "b", " ", "a", "b", " ", "a", "b", " ", "a", "b">>}

PageOutcomes == {None, <<"a", "b", " ", "a", "b">>, <<"a", "b", " ", "a", "b", " ", "a", "b">>, Raise}

RECURSIVE SeqsUpTo(_, _)
SeqsUpTo(S, n) ==
    IF n = 0 THEN {<<>>}
    ELSE LET shorter == SeqsUpTo(S, n - 1)
         IN shorter \cup {Append(q, x) : q \in {r \in shorter : Len(r) = n - 1}, x \in S}

ParserRuns ==
    {[open_ok |-> FALSE, pages |-> <<>>]}
    \cup {[open_ok |-> TRUE, pages |-> p] : p \in SeqsUpTo(PageOutcomes, MaxPages)}

\* A page whose text starts like the extractor's own diagnostic.
ErrorLookingPdf ==
    [open_ok |-> TRUE, pages |-> <<<<"[", "E", "R", "R", "O", "R", "]", " ", "a", "b", " ", "a", "b", " ", "a", "b", " ", "a", "b">>>>]

FileNames == {<<>>, <<"a", ".", "p", "d", "f">>, <<"A", ".", "P", "D", "F">>, <<"a", ".", "t", "x", "t">>, <<"p", "d", "f">>}

Upload(name, empty, p1, p2) ==
    [present |-> TRUE, filename |-> name, empty |-> empty, pdfplumber |-> p1, PyPDF2 |-> p2]

EmptyRun == [open_ok |-> TRUE, pages |-> <<>>]

Uploads ==
    {NoFile}
    \cup {Upload(name, TRUE, EmptyRun, EmptyRun) : name \in FileNames}
    \cup {Upload(name, FALSE, p1, p2) :
            name \in FileNames, p1 \in ParserRuns \cup {ErrorLookingPdf}, p2 \in ParserRuns}

GoodUpload == Upload(<<"a", ".", "p", "d", "f">>, FALSE, [open_ok |-> TRUE, pages |-> <<<<"a", "b", " ", "a", "b", " ", "a", "b">>>>], EmptyRun)

SomeUploads ==
    {NoFile, GoodUpload,
     Upload(<<"a", ".", "t", "x", "t">>, FALSE, EmptyRun, EmptyRun),
     Upload(<<"a", ".", "p", "d", "f">>, TRUE, EmptyRun, EmptyRun)}

Forms ==
    {[text_input |-> t, file |-> f] : t \in TextInputs, f \in SomeUploads}
    \cup {[text_input |-> t, file |-> f] : t \in BlankTexts, f \in Uploads}

ValidForms == {[text_input |-> t, file |-> NoFile] : t \in ValidTexts}

--------------------------------------------------------------------------
(* Inputs of POST /chat and of get_legal_explanation *)

Questions ==
    {<<>>, <<" ", "\t">>, <<"h", "i">>, <<" ", "H", "e", "l", "l", "o", "\n">>, <<"H", "E", "Y">>, <<"h", "e", "l", "p">>, <<"w", "h", "a", "t", " ", "c", "a", "n", " ", "y", "o", "u", " ", "d", "o">>,
     <<"h", "e", "l", "l", "o", " ", "t", "h", "e", "r", "e">>, <<"w", "h", "a", "t", " ", "i", "s", " ", "b", "a", "i", "l">>, <<"E", "x", "p", "l", "a", "i", "n", " ", "i", "n", " ", "s", "i", "m", "p", "l", "e", " ", "t", "e", "r", "m", "s">>,
     <<"g", "i", "v", "e", " ", "a", " ", "S", "t", "r", "u", "c", "t", "u", "r", "e", "d", " ", "S", "u", "m", "m", "a", "r", "y">>, <<"l", "a", "y", "m", "a", "n", " ", "v", "i", "e", "w", " ", "o", "f", " ", "t", "h", "e", " ", "h", "i", "g", "h", " ", "c", "o", "u", "r", "t">>}

SomeQuestions == {<<"w", "h", "a", "t", " ", "i", "s", " ", "b", "a", "i", "l">>, <<" ", "H", "e", "l", "l", "o", "\n">>}

Chunk(is_dict, case, full_text, preview) ==
    [is_dict |-> is_dict, case |-> case, full_text |-> full_text, preview |-> preview]

Chunks ==
    {Chunk(TRUE, <<"c", "a", "s", "e", "1">>, <<"J", "U", "D", "G", "M", "E", "N", "T", " ", "o", "f", " ", "c", "a", "s", "e", " ", "1">>, <<"J", "U", "D", "G">>),
     Chunk(TRUE, Absent, Absent, <<"J", "U", "D", "G">>),
     Chunk(TRUE, <<>>, Absent, Absent),
     Chunk(FALSE, Absent, Absent, Absent)}

Contexts ==
    {NullContext} \cup {[is_none |-> FALSE, chunks |-> c] : c \in SeqsUpTo(Chunks, MaxChunks)}

SomeContexts ==
    {EmptyList,
     [is_none |-> FALSE, chunks |-> <<Chunk(TRUE, <<"c", "a", "s", "e", "1">>, <<"J", "U", "D", "G", "M", "E", "N", "T", " ", "o", "f", " ", "c", "a", "s", "e", " ", "1">>, <<"J", "U", "D", "G">>)>>]}

ChatData(has_json, has_question, q, has_context, ctx) ==
    [has_json |-> has_json, has_question |-> has_question, question |-> q,
     has_context |-> has_context, context |-> ctx]

ChatDatas ==
    {ChatData(FALSE, FALSE, <<>>, FALSE, EmptyList),
     ChatData(TRUE, FALSE, <<>>, FALSE, EmptyList),
     ChatData(TRUE, FALSE, <<>>, TRUE, EmptyList)}
    \cup {ChatData(TRUE, TRUE, q, FALSE, EmptyList) : q \in Questions}
    \cup {ChatData(TRUE, TRUE, q, TRUE, ctx) : q \in Questions, ctx \in Contexts}

SomeChatDatas ==
    {ChatData(TRUE, TRUE, q, TRUE, ctx) : q \in SomeQuestions, ctx \in SomeContexts}

\* What generate_content gives: a response whose text is a str or missing
\* (None), or an exception whose str() is error_str.
Responded(t) == [kind |-> "response", text |-> t, error_str |-> <<>>]
Failed(e) == [kind |-> "raise", text |-> None, error_str |-> e]

ResponseTexts == {None, <<>>, <<" ", "\n">>, <<" ", "B", "a", "i", "l", " ", "i", "s", " ", "r", "e", "l", "e", "a", "s", "e", ".", " ">>, <<"o", "k">>}

ErrorTexts ==
    {<<>>, <<"t", "i", "m", "e", "o", "u", "t">>, <<"Q", "u", "o", "t", "a", " ", "e", "x", "c", "e", "e", "d", "e", "d">>, <<"4", "2", "9", " ", "T", "o", "o", " ", "M", "a", "n", "y", " ", "R", "e", "q", "u", "e", "s", "t", "s">>,
     <<"A", "P", "I", "_", "K", "E", "Y", " ", "i", "n", "v", "a", "l", "i", "d">>, <<"P", "e", "r", "m", "i", "s", "s", "i", "o", "n", " ", "d", "e", "n", "i", "e", "d">>, <<"a", "p", "i", "_", "k", "e", "y", " ", "o", "v", "e", "r", " ", "Q", "U", "O", "T", "A">>,
     <<"p", "e", "r", "m", "i", "s", "s", "i", "o", "n", " ", "4", "2", "9">>}

SomeErrorTexts == {<<"t", "i", "m", "e", "o", "u", "t">>, <<"Q", "u", "o", "t", "a", " ", "e", "x", "c", "e", "e", "d", "e", "d">>}

ProviderOutcomes ==
    {Responded(t) : t \in ResponseTexts} \cup {Failed(e) : e \in ErrorTexts}

SomeProviderOutcomes ==
    {Responded(t) : t \in ResponseTexts} \cup {Failed(e) : e \in SomeErrorTexts}

ConfiguredKeys == {None, <<"A", "I", "z", "a">>}

--------------------------------------------------------------------------
(* Specifications *)

\* The sets the specifications draw from.
OneWorker == {1}
SmallCorpus == {2}
CorpusSizes == 0..MaxCorpus
NoKey == {None}
ScoreValues == 0..MaxScore
TwoScores == 0..1
RetryCounts == 0..DefaultMaxRetries
ConcurrentForms == ValidForms \cup {[text_input |-> Absent, file |-> GoodUpload]}
ConcurrentOutcomes == {Responded(<<"o", "k">>), Failed(<<"t", "i", "m", "e", "o", "u", "t">>)}

\* POST / with every form, over a two-judgment corpus.
InitIndex == Startup(SmallCorpus, NoKey)

NextIndex ==
    \E w \in OneWorker :
        \/ IndexStart(w, Forms)
        \/ Predict(w, PredictOutcomes)
        \/ Search(w, TwoScores)
        \/ Finish(w)

SpecIndex == InitIndex /\ [][NextIndex]_vars

\* POST / with a valid text, over every corpus of up to MaxCorpus judgments
\* and every score vector.
InitRetrieve == Startup(CorpusSizes, NoKey)

NextRetrieve ==
    \E w \in OneWorker :
        \/ IndexStart(w, ValidForms)
        \/ Predict(w, SomePredictOutcomes)
        \/ Search(w, ScoreValues)
        \/ Finish(w)

SpecRetrieve == InitRetrieve /\ [][NextRetrieve]_vars

\* POST /chat and get_legal_explanation with every request, the provider
\* answering or failing in a few ways.
InitChat == Startup(SmallCorpus, ApiKeys)

NextChat ==
    \E w \in OneWorker :
        \/ Chat(w, ChatDatas)
        \/ Explain(w, Questions, Contexts, RetryCounts)
        \/ Attempt(w, SomeProviderOutcomes)
        \/ Finish(w)

SpecChat == InitChat /\ [][NextChat]_vars

\* A few requests, the provider answering or failing in every way at each
\* attempt.
InitRetry == Startup(SmallCorpus, ConfiguredKeys)

NextRetry ==
    \E w \in OneWorker :
        \/ Chat(w, SomeChatDatas)
        \/ Explain(w, SomeQuestions, SomeContexts, RetryCounts)
        \/ Attempt(w, ProviderOutcomes)
        \/ Finish(w)

SpecRetry == InitRetry /\ [][NextRetry]_vars

\* Two workers handling requests of both routes at the same time.
InitConcurrent == Startup(SmallCorpus, ConfiguredKeys)

NextConcurrent ==
    \E w \in Workers :
        \/ IndexStart(w, ConcurrentForms)
        \/ Predict(w, SomePredictOutcomes)
        \/ Search(w, TwoScores)
        \/ Chat(w, SomeChatDatas)
        \/ Attempt(w, ConcurrentOutcomes)
        \/ Finish(w)

SpecConcurrent == InitConcurrent /\ [][NextConcurrent]_vars

--------------------------------------------------------------------------
(* Properties *)

Done(w) == pc[w] = "done"
OnIndex(w) == request[w].route = "POST /"
OnChat(w) == request[w].route = "POST /chat"
InExplain(w) == gle[w] # "none"
Range(f) == {f[i] : i \in DOMAIN f}

\* C1: the retrieval step of POST / returns min(5, |corpus|) results, each
\* from a distinct corpus position, with scores non-increasing along the
\* list and ranks 1, 2, ..., n in list order, and no corpus entry left out
\* scores strictly higher than a returned one.
RetrievalContract ==
    \A w \in Workers :
        (Done(w) /\ OnIndex(w) /\ response[w].status = 200) =>
            LET res == response[w].results
                top == top_results[w]
                n == Len(embeddings)
            IN /\ Len(res) = (IF n < 5 THEN n ELSE 5)
               /\ Len(top) = Len(res)
               /\ \A i \in 1..Len(top) : top[i] \in 1..n
               /\ \A i, j \in 1..Len(top) : i # j => top[i] # top[j]
               /\ \A i \in 1..Len(res) :
                    /\ res[i].rank = i
                    /\ res[i].score = cos_scores[w][top[i]]
                    /\ res[i].case = case_names[top[i]]
                    /\ res[i].full_text = judgment_texts[top[i]]
               /\ \A i \in 1..(Len(res) - 1) : res[i].score >= res[i + 1].score
               /\ \A k \in (1..n) \ Range(top) :
                    \A i \in 1..Len(res) : cos_scores[w][k] <= res[i].score

\* A corpus larger than five whose scores differ, ranked: five results, the
\* best strictly above the worst, and an entry left out.
RetrievalWitness ==
    /\ Done(1) /\ OnIndex(1) /\ response[1].status = 200
    /\ Len(embeddings) > 5
    /\ Len(response[1].results) = 5
    /\ response[1].results[1].score > response[1].results[5].score
    /\ \E k \in 1..Len(embeddings) :
         k \notin Range(top_results[1]) /\ cos_scores[1][k] = response[1].results[5].score

\* C2: a get_legal_explanation call with the default max_retries that reaches
\* the invocation step calls the provider at least once and at most 3 times;
\* a further attempt is made only while every earlier attempt raised and
\* fewer than 3 were made; the call ends by returning a result, never by
\* raising, and after a response (with or without text) no call follows.
RetryBound ==
    \A w \in Workers :
        (InExplain(w) /\ prompt[w] # NoPrompt /\ max_retries[w] = 3) =>
            /\ gle[w] \in {"running", "returned"}
            /\ calls[w].generate_content <= 3
            /\ pc[w] = "attempt" <=> gle[w] = "running"
            /\ gle[w] = "running" =>
                 /\ calls[w].generate_content = Len(errs[w])
                 /\ calls[w].generate_content < 3
            /\ gle[w] = "returned" =>
                 /\ Done(w)
                 /\ calls[w].generate_content >= 1
                 /\ Len(errs[w]) \in {calls[w].generate_content - 1,
                                      calls[w].generate_content}
                 /\ Len(errs[w]) = calls[w].generate_content =>
                      calls[w].generate_content = 3

\* Two attempts raised and the third brought an answer.
RetryWitness ==
    /\ gle[1] = "returned" /\ max_retries[1] = 3
    /\ calls[1].generate_content = 3
    /\ Len(errs[1]) = 2
    /\ Truthy(result[1].answer)

\* C3: every result get_legal_explanation returns has exactly one of answer
\* and error populated with a non-empty value.
ExactlyOneOfAnswerError ==
    \A w \in Workers :
        gle[w] = "returned" => (Truthy(result[w].answer) # Truthy(result[w].error))

\* C3, the case that breaks it: the provider answered with blanks only, and
\* the call returned answer "" with error None.
BlankAnswerWitness ==
    /\ gle[1] = "returned" /\ calls[1].generate_content = 1
    /\ prompt[1] # NoPrompt
    /\ result[1].answer = <<>> /\ result[1].error = None

EmptyContext(ctx) == ctx.is_none \/ Len(ctx.chunks) = 0

\* C4: with the LLM client not initialised (no credential, or initialisation
\* failed at startup), every get_legal_explanation call with a non-empty
\* context returns the fixed unavailability error, answer unset and sources
\* empty, and generate_content is not called during the call.
NoModelNoProviderCall ==
    /\ ~Truthy(GEMINI_API_KEY) => gemini_model = None
    /\ \A w \in Workers :
        (InExplain(w) /\ gemini_model = None /\ ~EmptyContext(context_chunks[w])) =>
            /\ gle[w] = "returned"
            /\ Done(w)
            /\ result[w] = [error |-> MsgUnavailable, answer |-> None, sources |-> <<>>]
            /\ calls[w].generate_content = 0

\* The key is set but initialisation failed; a call with a context came back.
NoModelWitness ==
    /\ Truthy(GEMINI_API_KEY) /\ gemini_model = None
    /\ gle[1] = "returned" /\ OnChat(1)
    /\ Len(context_chunks[1].chunks) = 2
    /\ response[1].status = 500

ContextEmptyOrMissing(d) ==
    ~d.has_context \/ (~d.context.is_none /\ Len(d.context.chunks) = 0)

CannedOutcome(w, q) ==
    /\ response[w].success = TRUE
    /\ response[w].error = Absent
    /\ response[w].response =
         (IF strip(lower(q)) \in Greetings THEN MsgGreeting ELSE MsgChatGuidance)
    /\ calls[w] = NoCalls
    /\ gle[w] = "none"

\* C5 as stated: a POST /chat with a non-empty question and an empty or
\* missing context gets success=true with the canned greeting or guidance,
\* and neither get_legal_explanation nor the provider is invoked.
CannedForNonEmptyQuestion ==
    \A w \in Workers :
        (Done(w) /\ OnChat(w) /\ request[w].data.has_json
            /\ request[w].data.has_question
            /\ request[w].data.question # <<>>
            /\ ContextEmptyOrMissing(request[w].data)) =>
            CannedOutcome(w, request[w].data.question)

\* C5 as amended: a POST /chat whose question is non-empty after trimming
\* and whose context is an empty list or missing gets success=true with no
\* error, the canned greeting when the trimmed, lower-cased question is a
\* greeting phrase and the canned guidance otherwise, whether or not the LLM
\* client is initialised; get_legal_explanation and the provider are not
\* invoked.
CannedForNonBlankQuestion ==
    \A w \in Workers :
        (Done(w) /\ OnChat(w) /\ request[w].data.has_json
            /\ request[w].data.has_question
            /\ strip(request[w].data.question) # <<>>
            /\ ContextEmptyOrMissing(request[w].data)) =>
            CannedOutcome(w, request[w].data.question)

\* " Hello\n" without a context key, the client not initialised: the greeting.
CannedWitness ==
    /\ Done(1) /\ OnChat(1)
    /\ gemini_model = None
    /\ request[1].data.has_question /\ ~request[1].data.has_context
    /\ request[1].data.question # strip(lower(request[1].data.question))
    /\ response[1].success = TRUE
    /\ response[1].response = MsgGreeting

GuidanceOutcome(w) ==
    /\ result[w] = [error |-> None, answer |-> MsgGuidance, sources |-> <<>>]
    /\ calls[w].generate_content = 0

\* C6 as stated: every get_legal_explanation call with an empty context
\* returns the canned guidance as answer, error unset and sources empty,
\* without calling the provider.
GuidanceForEmptyContext ==
    \A w \in Workers :
        (gle[w] = "returned" /\ EmptyContext(context_chunks[w])) => GuidanceOutcome(w)

\* C6 as amended: every get_legal_explanation call with an empty context made
\* while the LLM client is initialised returns the canned guidance as answer,
\* error unset and sources empty, without calling the provider.
GuidanceForEmptyContextWithModel ==
    \A w \in Workers :
        (InExplain(w) /\ EmptyContext(context_chunks[w]) /\ Truthy(gemini_model)) =>
            /\ gle[w] = "returned"
            /\ GuidanceOutcome(w)

\* A call with [] as context, the client initialised, answered by the guidance.
GuidanceWitness ==
    /\ gle[1] = "returned" /\ Truthy(gemini_model)
    /\ context_chunks[1] = EmptyList
    /\ max_retries[1] = 3
    /\ result[1].answer = MsgGuidance

Pasted(form) == strip(IF form.text_input = Absent THEN <<>> ELSE form.text_input)
HasText(form) == Pasted(form) # <<>>
HasFile(form) == form.file.present /\ form.file.filename # <<>>
Analysed(w) == calls[w].predict > 0 \/ calls[w].encode > 0
Rejected400(w) == Done(w) /\ response[w].status = 400 /\ ~Analysed(w)

\* C7 as stated: POST / proceeds to analysis only when exactly one of pasted
\* text and uploaded file is present; a request with neither and a request
\* with both get 400 and reach neither classification nor retrieval; an
\* uploaded file whose name does not end in .pdf or whose bytes are empty
\* gets 400.
ExactlyOneInput ==
    \A w \in Workers :
        OnIndex(w) =>
            LET form == request[w].form
            IN /\ Analysed(w) => (HasText(form) # HasFile(form))
               /\ (Done(w) /\ ~HasText(form) /\ ~HasFile(form)) => Rejected400(w)
               /\ (Done(w) /\ HasText(form) /\ HasFile(form)) => Rejected400(w)
               /\ (Done(w) /\ HasFile(form)
                    /\ (~endswith(lower(form.file.filename), <<".", "p", "d", "f">>) \/ form.file.empty)) =>
                        Rejected400(w)

\* C7 as amended: POST / proceeds to analysis only when a non-blank
\* text_input or an uploaded file is present; a request with neither gets
\* 400 and reaches neither classification nor retrieval; a request with both
\* is not rejected for that: the pasted text alone is analysed, under the
\* five-word minimum, and the file is ignored; when text_input is blank, an
\* uploaded file whose name does not end in .pdf, compared case-insensitively,
\* or whose bytes are empty gets 400.
TextOrFileInput ==
    \A w \in Workers :
        OnIndex(w) =>
            LET form == request[w].form
            IN /\ Analysed(w) => (HasText(form) \/ HasFile(form))
               /\ (Done(w) /\ ~HasText(form) /\ ~HasFile(form)) => Rejected400(w)
               /\ (Done(w) /\ HasText(form) /\ HasFile(form)) =>
                    IF Len(split(Pasted(form))) < 5
                    THEN Rejected400(w)
                    ELSE /\ calls[w].predict = 1
                         /\ response[w].status \in {200, 500}
                         /\ response[w].status = 200 =>
                              response[w].original_document = AfterMarker(Pasted(form))
               /\ (Done(w) /\ ~HasText(form) /\ HasFile(form)
                    /\ (~endswith(lower(form.file.filename), <<".", "p", "d", "f">>) \/ form.file.empty)) =>
                        Rejected400(w)

\* Five words pasted together with a file named a.txt: analysed, 200.
BothInputsWitness ==
    /\ Done(1) /\ OnIndex(1)
    /\ HasText(request[1].form) /\ HasFile(request[1].form)
    /\ request[1].form.file.filename = <<"a", ".", "t", "x", "t">>
    /\ response[1].status = 200
    /\ calls[1].predict = 1 /\ calls[1].encode = 1

\* The input text of a POST /: the pasted text, or the text extracted from
\* the upload once its name and size passed; Absent when there is none.
InputTextOf(form) ==
    IF HasText(form) THEN Pasted(form)
    ELSE IF HasFile(form) /\ endswith(lower(form.file.filename), <<".", "p", "d", "f">>)
            /\ ~form.file.empty
         THEN read_pdf_from_bytes(form.file)
         ELSE Absent

\* C8: a POST / whose input text, pasted or extracted from the PDF, has
\* fewer than 5 whitespace-separated tokens gets 400 and neither the
\* classifier nor the encoder is invoked; they are invoked only for requests
\* whose input text has at least 5.
ShortInputRejected ==
    \A w \in Workers :
        OnIndex(w) =>
            LET it == InputTextOf(request[w].form)
            IN /\ (Done(w) /\ it # Absent /\ Len(split(it)) < 5) =>
                    /\ response[w].status = 400
                    /\ calls[w].predict = 0
                    /\ calls[w].encode = 0
               /\ (Analysed(w) \/ pc[w] \in {"predict", "search"}) =>
                    /\ it # Absent
                    /\ Len(split(it)) >= 5

\* A PDF whose two pages give four words in all: 400, nothing invoked.
ShortInputWitness ==
    /\ Done(1) /\ OnIndex(1)
    /\ ~HasText(request[1].form)
    /\ InputTextOf(request[1].form) # Absent
    /\ Len(split(InputTextOf(request[1].form))) = 4
    /\ response[1].status = 400
    /\ response[1].body = MsgTooShort(4)

\* What belongs to the request a worker is handling.
Frame(w) ==
    <<pc[w], request[w], response[w], calls[w], input_text[w], text[w],
      predicted_category[w], cos_scores[w], top_results[w], question[w],
      context_chunks[w], max_retries[w], prompt[w], attempt[w], errs[w], gle[w],
      result[w]>>

\* C9: under any interleaving of POST / and POST /chat handlers, no step of a
\* handler writes the artifacts loaded at startup or the LLM client, and a
\* step of one handler leaves the state of every other request as it was.
NoSharedWrites ==
    [][/\ globals' = globals
       /\ \A v1, v2 \in Workers :
            (Frame(v1)' # Frame(v1) /\ Frame(v2)' # Frame(v2)) => v1 = v2]_vars

\* One worker has rendered its results while the other is between two
\* provider calls.
ConcurrentWitness ==
    /\ Done(1) /\ OnIndex(1) /\ response[1].status = 200
    /\ pc[2] = "attempt" /\ OnChat(2) /\ calls[2].generate_content = 1

\* C10: when all 3 attempts raise, the result is decided by the error text of
\* the third alone: the quota message if it contains "quota" in any case or
\* "429", else the credential message if it contains "api_key" or
\* "permission" in any case, else the generic message carrying the text;
\* answer unset, sources empty.
ErrorKindFromLastAttempt ==
    \A w \in Workers :
        (gle[w] = "returned" /\ max_retries[w] = 3 /\ Len(errs[w]) = 3) =>
            LET e == errs[w][3]
                quota == Contains(lower(e), <<"q", "u", "o", "t", "a">>) \/ Contains(e, <<"4", "2", "9">>)
                credential == Contains(lower(e), <<"a", "p", "i", "_", "k", "e", "y">>)
                                \/ Contains(lower(e), <<"p", "e", "r", "m", "i", "s", "s", "i", "o", "n">>)
            IN /\ result[w].answer = None
               /\ result[w].sources = <<>>
               /\ result[w].error =
                    (IF quota THEN MsgQuota
                     ELSE IF credential THEN MsgApiKey
                     ELSE MsgServiceError(3, e))

\* Quota, then credential, then a timeout: the generic message.
ErrorKindWitness ==
    /\ gle[1] = "returned" /\ max_retries[1] = 3 /\ Len(errs[1]) = 3
    /\ Contains(lower(errs[1][1]), <<"q", "u", "o", "t", "a">>)
    /\ Contains(lower(errs[1][2]), <<"a", "p", "i", "_", "k", "e", "y">>)
    /\ errs[1][3] = <<"t", "i", "m", "e", "o", "u", "t">>
    /\ result[1].error = MsgServiceError(3, <<"t", "i", "m", "e", "o", "u", "t">>)

\* C11: corpus entries with equal scores are ranked by ascending corpus
\* index: among equal scores the lower index comes first in the list, and
\* when only some of them fit in the top 5 the lower-index ones are returned.
TieBreakAscending ==
    \A w \in Workers :
        (Done(w) /\ OnIndex(w) /\ response[w].status = 200) =>
            LET top == top_results[w]
                scores == cos_scores[w]
            IN /\ \A i, j \in 1..Len(top) :
                    (i < j /\ scores[top[i]] = scores[top[j]]) => top[i] < top[j]
               /\ \A k \in (DOMAIN scores) \ Range(top) :
                    \A i \in 1..Len(top) :
                        scores[k] = scores[top[i]] => top[i] < k

\* C11, the case that breaks it: two entries with the same score, the one
\* with the higher index ranked first.
TieOutOfOrderWitness ==
    /\ Done(1) /\ OnIndex(1) /\ response[1].status = 200
    /\ Len(top_results[1]) >= 2
    /\ cos_scores[1][top_results[1][1]] = cos_scores[1][top_results[1][2]]
    /\ top_results[1][1] > top_results[1][2]
    /\ response[1].results[1].rank = 1
    /\ response[1].results[1].case = case_names[top_results[1][1]]

\* Lines 333-344: what index() does with the text read_pdf_from_bytes gave.
ExtractVerdict(extracted) ==
    IF startswith(extracted, <<"[", "E", "R", "R", "O", "R", "]">>)
    THEN Reject(MsgPdfFailed(extracted))
    ELSE CheckText(extracted)

\* The request's input is its uploaded PDF: no pasted text, a name ending in
\* .pdf and bytes to read (lines 315-331).
ReadsPdf(w) ==
    /\ OnIndex(w)
    /\ ~HasText(request[w].form)
    /\ HasFile(request[w].form)
    /\ endswith(lower(request[w].form.file.filename), <<".", "p", "d", "f">>)
    /\ ~request[w].form.file.empty

\* C12: read_pdf_from_bytes never raises and returns the primary parser's
\* non-empty page texts joined by newlines when that parser completed with
\* at least one; otherwise exactly the secondary parser's non-empty page
\* texts joined by newlines, with no page text collected by the primary
\* parser; and the "[ERROR]" diagnostic when the secondary parser raised.
\* Seen through index(): the text it goes on with, or the 400 it replies, is
\* the one that text leads to.
PdfFallbackSecondaryAlone ==
    \A w \in Workers :
        ReadsPdf(w) =>
            LET primary == RunParser(request[w].form.file.pdfplumber)
                secondary == RunParser(request[w].form.file.PyPDF2)
                stated == IF ~primary.raised /\ primary.texts # <<>>
                          THEN join(<<"\n">>, primary.texts)
                          ELSE IF secondary.raised THEN ExtractError
                          ELSE join(<<"\n">>, secondary.texts)
                v == ExtractVerdict(stated)
            IN /\ pc[w] = "predict" => (v.ok /\ input_text[w] = v.input_text)
               /\ (Done(w) /\ ~Analysed(w)) =>
                    (~v.ok /\ response[w].status = 400 /\ response[w].body = v.body)

\* C12, the case that breaks it: the primary parser raised after a page, the
\* secondary parser completed, and index() goes on with a text that opens
\* with the page the primary parser had collected.
PrimaryPagesKeptWitness ==
    /\ ReadsPdf(1) /\ pc[1] = "predict"
    /\ RunParser(request[1].form.file.pdfplumber).raised
    /\ RunParser(request[1].form.file.pdfplumber).texts # <<>>
    /\ ~RunParser(request[1].form.file.PyPDF2).raised
    /\ input_text[1] =
         join(<<"\n">>, RunParser(request[1].form.file.pdfplumber).texts
                          \o RunParser(request[1].form.file.PyPDF2).texts)
    /\ input_text[1] # join(<<"\n">>, RunParser(request[1].form.file.PyPDF2).texts)

====
